---- MODULE Spec2Model ----
(***************************************************************************)
(* StemWeaver (gui_data/gui_modern_extractor.py): the batch orchestrator   *)
(* StemWeaverGUI.process_files, the GUI callbacks that start, stop and     *)
(* edit a batch, and the chunked separation engine inside process_files.   *)
(*                                                                         *)
(* The GUI thread runs start_processing, stop_processing,                  *)
(* file_dialog_callback and clear_files; every accepted Start spawns one   *)
(* daemon thread running process_files.  The threads share                 *)
(* self.processing, self.is_cpu, self.selected_files and the progress bar. *)
(* A thread's step is the code between two blocking operations (model      *)
(* loading, an inference call, file decoding, a stem write).               *)
(***************************************************************************)
EXTENDS Integers, Sequences, FiniteSets, TLC

\* ------------------------------------------------------------ bounds
\* Longest file list the GUI holds.
MaxFiles == 2

\* Thread slots: process_files threads that may be alive at the same time.
Workers == {1, 2}

\* ------------------------------------------------- program constants
sample_rate == 44100
MinFileSize == 1000
LargeFileMB == 500
ChunkThresholdSeconds == 60
chunk_seconds_std == 15
chunk_seconds_retry == 10
vocal_idx == 3

MB == 1024 * 1024

\* Extensions the ffmpeg fallback converts (line 1239).
ConvertibleExts == {".mp3", ".ogg", ".m4a", ".flac"}

\* The items of the "ai_model" combo box.
Balanced == "Demucs v4 (Balanced)"
FineTuned == "Demucs v4 Fine-tuned (Best Vocals)"
DrumsModel == "Demucs Drums (Best Percussion)"
SixStem == "Demucs 6-Stem (+ Piano/Guitar)"
Fast == "MDX-Net (Fastest)"
Ensemble == "Ensemble (Best Quality - Slow)"
ModelTypes == {Balanced, FineTuned, DrumsModel, SixStem, Fast, Ensemble}

\* The substring tests of lines 1008-1012, on the six combo items.
use_6_stem(model_type) == model_type = SixStem
use_mdx(model_type) == model_type = Fast
use_ensemble(model_type) == model_type = Ensemble
use_fine_tuned(model_type) == model_type = FineTuned
use_drums(model_type) == model_type = DrumsModel

ModelNames == {"htdemucs", "htdemucs_ft", "htdemucs_6s"}

\* models_to_try, in the order of the if/elif chain of lines 1118-1144.
models_to_try(model_type) ==
    IF use_ensemble(model_type) THEN <<"htdemucs_ft", "htdemucs">>
    ELSE IF use_6_stem(model_type) THEN <<"htdemucs_6s">>
    ELSE IF use_drums(model_type) THEN <<"htdemucs_ft", "htdemucs">>
    ELSE IF use_mdx(model_type) THEN <<"htdemucs">>
    ELSE IF use_fine_tuned(model_type) THEN <<"htdemucs_ft", "htdemucs">>
    ELSE <<"htdemucs", "htdemucs_ft">>

\* Number of sources a loaded model separates.
n_sources(model_name) == IF model_name = "htdemucs_6s" THEN 6 ELSE 4

\* The stems list and stem_indices built at lines 1015-1051 from the
\* check boxes: the order is fixed by the code, the 4-stem branch ignores
\* Guitar and Piano.
StemOrder6 == <<"Drums", "Bass", "Other", "Vocals", "Guitar", "Piano">>
StemOrder4 == <<"Drums", "Bass", "Other", "Vocals">>

RECURSIVE FilterSeq(_, _)
FilterSeq(s, keep) ==
    IF s = <<>> THEN <<>>
    ELSE IF Head(s) \in keep THEN <<Head(s)>> \o FilterSeq(Tail(s), keep)
    ELSE FilterSeq(Tail(s), keep)

stems_of(model_type, checked) ==
    IF use_6_stem(model_type) THEN FilterSeq(StemOrder6, checked)
    ELSE FilterSeq(StemOrder4, checked)

stem_indices(stem) ==
    CASE stem = "Drums" -> 0
      [] stem = "Bass" -> 1
      [] stem = "Other" -> 2
      [] stem = "Vocals" -> 3
      [] stem = "Guitar" -> 4
      [] stem = "Piano" -> 5

Max(a, b) == IF a >= b THEN a ELSE b
Min(a, b) == IF a <= b THEN a ELSE b

\* A table with the entries of levels 2 and 3 exchanged.
quality_shifts_Swapped(quality_level) ==
    CASE quality_level = 1 -> 0
      [] quality_level = 2 -> 1
      [] quality_level = 3 -> 0
      [] quality_level = 4 -> 1
      [] quality_level = 5 -> 2
      [] OTHER -> 1

\* quality_shifts.get(quality_level, 1), lines 1070-1071.
quality_shifts(quality_level) ==
    CASE quality_level = 1 -> 0
      [] quality_level = 2 -> 0
      [] quality_level = 3 -> 1
      [] quality_level = 4 -> 1
      [] quality_level = 5 -> 2
      [] OTHER -> 1

\* quality_overlap.get(quality_level, 0.2), lines 1075-1076, in hundredths.
quality_overlap(quality_level) ==
    CASE quality_level = 1 -> 10
      [] quality_level = 2 -> 15
      [] quality_level = 3 -> 20
      [] quality_level = 4 -> 25
      [] quality_level = 5 -> 30
      [] OTHER -> 20

\* What the if/elif chain of lines 1118-1144 does to shifts and overlap:
\* the Drums branch raises them to 1 and 0.2, the MDX-Net branch sets 0
\* and 0.1.
variant_shifts(model_type, shifts) ==
    IF use_ensemble(model_type) THEN shifts
    ELSE IF use_6_stem(model_type) THEN shifts
    ELSE IF use_drums(model_type) THEN Max(shifts, 1)
    ELSE IF use_mdx(model_type) THEN 0
    ELSE shifts

variant_overlap(model_type, overlap) ==
    IF use_ensemble(model_type) THEN overlap
    ELSE IF use_6_stem(model_type) THEN overlap
    ELSE IF use_drums(model_type) THEN Max(overlap, 20)
    ELSE IF use_mdx(model_type) THEN 10
    ELSE overlap

\* A reduction that does not wait for the 120 s threshold.
actual_shifts_Eager(cpu, total_samples, shifts) ==
    IF cpu THEN Max(0, shifts - 1) ELSE shifts

\* actual_shifts, lines 1309-1319: on the CPU a file over 300 s gets no
\* shifts, one over 120 s one shift less.
actual_shifts(cpu, total_samples, shifts) ==
    IF cpu /\ total_samples > 300 * sample_rate THEN 0
    ELSE IF cpu /\ total_samples > 120 * sample_rate THEN Max(0, shifts - 1)
    ELSE shifts

\* ----------------------------------------------------------- rationals
\* A progress value is the exact fraction <<numerator, denominator>>.
Leq(a, b) == a[1] * b[2] <= b[1] * a[2]
Less(a, b) == a[1] * b[2] < b[1] * a[2]
Zero == <<0, 1>>
One == <<1, 1>>

\* dpg.set_value("progress", 0.05), line 956.
ProgressStart == <<1, 20>>
\* (idx + 0.1) / total, line 1386.
ProgressSeparating(idx, total) == <<10 * idx + 1, 10 * total>>
\* (idx + 0.8) / total, line 1703.
ProgressSeparated(idx, total) == <<10 * idx + 8, 10 * total>>
\* (idx + 0.8 + (stem_idx + 1) * 0.2 / len(stems)) / total, line 1713.
ProgressStem(idx, total, stem_idx, n_stems) ==
    <<10 * idx * n_stems + 8 * n_stems + 2 * (stem_idx + 1), 10 * total * n_stems>>

VARIABLES
    selected_files,   \* len(self.selected_files): the GUI's current list
    processing,       \* self.processing
    is_cpu,           \* self.is_cpu: <<>> until a thread assigns it, then <<value>>
    progress,         \* the value of the "progress" bar
    dpg,              \* the settings widgets the threads read
    env,              \* the installation: libraries, CUDA, loadable models
    worker            \* the process_files threads, by slot

vars == <<selected_files, processing, is_cpu, progress, dpg, env, worker>>

\* ------------------------------------------------------- thread state
\* A tensor shape (batch, sources, channels, time).
NoShape == <<0, 0, 0, 0>>

\* The file a thread is handling, or handled last:
\*   kind      "running", or how the file ended
\*   size, ext, prim_ok     what the file is, whether its first decode worked
\*   decodes, convs         librosa.load calls, fallback ffmpeg conversions
\*   calls     apply_model calls made for the file
\*   prepass, whole     how the vocal-first pre-pass and the whole-file
\*             call of the separation ended
\*   out       what the thread left in the file's output directory, as
\*             <<name, extension>>
\*   stems_skipped      the list of line 1707
\*   written   the stem files written, as <<stem, pass the audio is from>>
\*   silent    the stems found silent
\*   denoise   the apply_denoising calls, as <<stem, level, returned>>
\*   clean     the stems whose file holds denoised audio
\*   sigma     the sigma multipliers apply_denoising gated with, as
\*             <<stem, multiplier in hundredths>>
\*   midi      the stems audio_to_midi was called for
\*   heard     what the analysis of each stem sent to audio_to_midi
\*             found, as <<stem, "fail" | "no_onsets" | "no_notes" | "notes">>
\*   notes     the note files written, as <<stem, the notes in the file>>
NoFile == [kind |-> "none", size |-> 0, ext |-> "", prim_ok |-> TRUE,
           decodes |-> 0, convs |-> 0, calls |-> 0,
           prepass |-> "none", whole |-> "none", out |-> {},
           stems_skipped |-> <<>>, written |-> {}, silent |-> {},
           denoise |-> {}, clean |-> {}, sigma |-> {}, midi |-> {}, heard |-> {}, notes |-> {}]
TempWav == <<"_temp", "wav">>
Accompaniment == <<"accompaniment", "wav">>

\* A slot no thread has used yet.  Fields, in the order process_files
\* uses them:
\*   pc            where the thread is (idle | spawned | load | loop |
\*                 vocal_first | whole | chunk | stem | vocals_pass | done)
\*   exit          the path on which process_files returned
\*   total         total = len(self.selected_files), line 1059
\*   flen, alias   the list object the for loop of line 1169 iterates: its
\*                 length, and whether it still is self.selected_files
\*   idx, files_processed, files_failed     the loop's counters
\*   shifts, overlap, actual_shifts        the inference parameters
\*   call          the apply_model call in flight: which pass it serves,
\*                 its shifts and overlap, the samples of its input, and
\*                 whether the input is cut from the original waveform
\*   wt            waveform.shape[2], the working waveform's samples
\*   replaced      the working waveform is the accompaniment
\*   mode          the separation path of the current file
\*   chunk_idx, chunk_sources, sources      the chunk loop and its result
\*   chunk_starts  for each entry of chunk_sources, the input sample its
\*                 chunk started at
\*   stem_idx, stems_saved                  the stem loop
\*   file          the current file (the last one, between two files)
\*   batch         the number of valid files in the list when this
\*                 thread's Start was accepted
\*   clean         no Stop was pressed since this thread's Start and no
\*                 other thread was alive then
\*   stopped       Stop was pressed while this thread was inside a file
\*                 and no Start was accepted since
\*   stop_chunk    Stop was pressed during the current chunk loop
NoCall == [pass |-> "none", shifts |-> 0, overlap |-> 0, samples |-> 0, original |-> FALSE]

IdleWorker ==
    [pc |-> "idle", exit |-> "none", total |-> 0, flen |-> 0, alias |-> FALSE,
     device |-> "cpu", model |-> "none",
     shifts |-> 0, overlap |-> 0, actual_shifts |-> 0, call |-> NoCall,
     idx |-> 0, files_processed |-> 0, files_failed |-> 0,
     wt |-> 0, replaced |-> FALSE,
     mode |-> "none", chunk_idx |-> 0, chunk_sources |-> <<>>, chunk_starts |-> <<>>,
     sources |-> NoShape,
     stem_idx |-> 0, stems_saved |-> 0,
     file |-> NoFile,
     batch |-> 0,
     clean |-> TRUE, stopped |-> FALSE, stop_chunk |-> FALSE]

InFile == {"vocal_first", "whole", "chunk", "stem", "vocals_pass"}
Alive(w) == worker[w].pc \notin {"idle", "done"}
Running(w) == worker[w].pc \notin {"idle", "spawned", "done"}
Free(w) == worker[w].pc \in {"idle", "done"}

stems == stems_of(dpg.ai_model, dpg.checked)

\* ------------------------------------------------------ GUI callbacks
\* start_processing, lines 921-963.  gone is the number of listed files
\* that no longer exist, valid the number of those that do; the list is
\* rebound to valid_files before the self.processing test.  An accepted
\* Start takes the lowest free slot.
Start(Slots, In) ==
    /\ selected_files > 0
    /\ \E gone \in In.gone :
         LET valid == selected_files - gone IN
         /\ valid > 0
         /\ selected_files' = valid
         /\ IF processing
            THEN /\ worker' = [w \in Workers |-> [worker[w] EXCEPT !.alias = FALSE]]
                 /\ UNCHANGED <<processing, progress>>
            ELSE /\ \E w \in Slots :
                      /\ Free(w)
                      /\ \A v \in Slots : Free(v) => w <= v
                      /\ worker' = [v \in Workers |->
                           IF v = w
                           THEN [IdleWorker EXCEPT
                                   !.pc = "spawned",
                                   !.batch = valid,
                                   !.clean = \A u \in Workers : ~Alive(u)]
                           ELSE [worker[v] EXCEPT !.alias = FALSE, !.stopped = FALSE]]
                 /\ progress' = ProgressStart
                 /\ processing' = TRUE
    /\ UNCHANGED <<is_cpu, dpg, env>>

\* stop_processing, lines 1898-1911.
Stop ==
    /\ processing
    /\ processing' = FALSE
    /\ progress' = Zero
    /\ worker' = [w \in Workers |->
         IF Alive(w)
         THEN [worker[w] EXCEPT
                 !.clean = FALSE,
                 !.stopped = @ \/ worker[w].pc \in InFile,
                 !.stop_chunk = @ \/ worker[w].pc = "chunk"]
         ELSE worker[w]]
    /\ UNCHANGED <<selected_files, is_cpu, dpg, env>>

\* The radio button "device_select" of lines 428-436: the user picks the
\* other device; nothing disables the widget while a batch runs.
SelectDevice ==
    /\ dpg' = [dpg EXCEPT !.device_select = IF @ = "CPU" THEN "GPU" ELSE "CPU"]
    /\ UNCHANGED <<selected_files, processing, is_cpu, progress, env, worker>>

\* file_dialog_callback, lines 888-901: one new path is appended in place,
\* so a loop iterating the same list object sees it.
AddFile ==
    /\ selected_files < MaxFiles
    /\ selected_files' = selected_files + 1
    /\ worker' = [w \in Workers |->
         IF worker[w].alias /\ Alive(w)
         THEN [worker[w] EXCEPT !.flen = @ + 1]
         ELSE worker[w]]
    /\ UNCHANGED <<processing, is_cpu, progress, dpg, env>>

\* clear_files, lines 910-919: the attribute is rebound to a new list.
ClearFiles ==
    /\ selected_files > 0
    /\ selected_files' = 0
    /\ worker' = [w \in Workers |-> [worker[w] EXCEPT !.alias = FALSE]]
    /\ UNCHANGED <<processing, is_cpu, progress, dpg, env>>

\* ------------------------------------------------------ process_files
\* process_files returns: the finally clause of line 1867.
Return(r, how) ==
    [IdleWorker EXCEPT !.pc = "done", !.exit = how]

\* Lines 970-1109: the processing flag, the prerequisite checks, the
\* settings, total, and the device.  outdir is what creating and probing
\* the output directory does.
Begin(w, In) ==
    /\ worker[w].pc = "spawned"
    /\ \E outdir \in In.outdir :
         LET r == worker[w]
             how == IF ~env.HAS_AUDIO_LIBS THEN "no_audio_libs"
                    ELSE IF ~env.HAS_DEMUCS THEN "no_demucs"
                    ELSE IF outdir = "error" THEN "exception"
                    ELSE IF outdir = "unwritable" THEN "unwritable"
                    ELSE IF stems = <<>> THEN "no_stems"
                    ELSE "ok"
             device == IF dpg.device_select = "GPU" /\ env.cuda THEN "cuda" ELSE "cpu"
         IN  IF how # "ok"
             THEN /\ worker' = [worker EXCEPT ![w] = Return(r, how)]
                  /\ processing' = FALSE
                  /\ UNCHANGED is_cpu
             ELSE /\ worker' = [worker EXCEPT ![w] =
                        [r EXCEPT !.pc = "load", !.total = selected_files,
                                  !.shifts = quality_shifts(dpg.quality),
                                  !.overlap = quality_overlap(dpg.quality),
                                  !.device = device]]
                  /\ processing' = TRUE
                  /\ is_cpu' = <<device = "cpu">>
    /\ UNCHANGED <<selected_files, progress, dpg, env>>

\* Mutation of FirstAvailable: the first candidate is taken without
\* checking that it loaded.
FirstAvailable_Unchecked(candidates, avail) ==
    IF candidates = <<>> THEN "none" ELSE Head(candidates)

\* The first candidate that loads, "none" when every candidate fails.
RECURSIVE FirstAvailable(_, _)
FirstAvailable(candidates, avail) ==
    IF candidates = <<>> THEN "none"
    ELSE IF Head(candidates) \in avail THEN Head(candidates)
    ELSE FirstAvailable(Tail(candidates), avail)

\* Lines 1111-1169: the candidates are tried in order; env.avail is the
\* set of models get_model can deliver.  With a model loaded the for loop
\* takes the list object self.selected_files names at that moment.
LoadModel(w) ==
    /\ worker[w].pc = "load"
    /\   LET r == worker[w]
             model_name == FirstAvailable(models_to_try(dpg.ai_model), env.avail)
         IN  IF model_name = "none"
             THEN /\ worker' = [worker EXCEPT ![w] = Return(r, "no_model")]
                  /\ processing' = FALSE
             ELSE /\ worker' = [worker EXCEPT ![w] =
                        [r EXCEPT !.pc = "loop", !.model = model_name,
                                  !.shifts = variant_shifts(dpg.ai_model, r.shifts),
                                  !.overlap = variant_overlap(dpg.ai_model, r.overlap),
                                  !.flen = selected_files, !.alias = TRUE]]
                  /\ UNCHANGED processing
    /\ UNCHANGED <<selected_files, is_cpu, progress, dpg, env>>

\* Lines 1169-1172 and 1835-1867: the loop ends (the list is exhausted or
\* the flag is down), the summary sets the bar to 1.0 and the finally
\* clause lowers the flag.
EndLoop(w) ==
    /\ worker[w].pc = "loop"
    /\ worker[w].idx >= worker[w].flen \/ ~processing
    /\ worker' = [worker EXCEPT ![w].pc = "summary"]
    /\ UNCHANGED <<selected_files, processing, is_cpu, progress, dpg, env>>

\* Mutation of Finish: the summary returns without the finally clause.
Finish_KeepsFlag(w) ==
    /\ worker[w].pc = "summary"
    /\ progress' = One
    /\ worker' = [worker EXCEPT ![w] = Return(worker[w], "summary")]
    /\ UNCHANGED <<selected_files, processing, is_cpu, dpg, env>>

Finish(w) ==
    /\ worker[w].pc = "summary"
    /\ progress' = One
    /\ processing' = FALSE
    /\ worker' = [worker EXCEPT ![w] = Return(worker[w], "summary")]
    /\ UNCHANGED <<selected_files, is_cpu, dpg, env>>

\* ------------------------------------------------------------ one file
CeilDiv(a, b) == (a + b - 1) \div b

RECURSIVE SeqMax(_, _)
SeqMax(s, i) == IF s = <<>> THEN 0 ELSE Max(Head(s)[i], SeqMax(Tail(s), i))
RECURSIVE SeqSum(_, _)
SeqSum(s, i) == IF s = <<>> THEN 0 ELSE Head(s)[i] + SeqSum(Tail(s), i)

\* Mutation of too_small: the threshold is 100 bytes.
too_small_Lenient(file_size) == file_size < 100

\* if file_size < 1000, line 1193.
too_small(file_size) == file_size < MinFileSize

\* if file_size_mb > 500, lines 1211-1212.
large_file(file_size) == file_size > LargeFileMB * MB

\* if file_ext in ['.mp3', '.ogg', '.m4a', '.flac'], line 1239.
convertible(file_ext) == file_ext \in ConvertibleExts

\* Lines 1207-1284, the decode of one file.  prim_ok: librosa.load of line
\* 1219 succeeds; conv_ok: the ffmpeg run of line 1243 succeeds and its
\* output exists; retry_ok: librosa.load of line 1263 succeeds.  A file
\* over 500 MB is converted first and audio_file becomes the temporary
\* WAV, so the fallback sees the extension .wav.  The result: whether a
\* waveform exists, whether the temporary file is left, the numbers of
\* decode calls and of fallback conversions.
load_audio(file_ext, file_size, prim_ok, conv_ok, retry_ok) ==
    LET ext2 == IF large_file(file_size) THEN ".wav" ELSE file_ext
    IN  IF prim_ok
        THEN [ok |-> TRUE, temp_wav |-> large_file(file_size), decodes |-> 1, convs |-> 0]
        ELSE IF convertible(ext2)
        THEN IF conv_ok
             THEN [ok |-> retry_ok, temp_wav |-> retry_ok, decodes |-> 2, convs |-> 1]
             ELSE [ok |-> FALSE, temp_wav |-> FALSE, decodes |-> 1, convs |-> 1]
        ELSE [ok |-> FALSE, temp_wav |-> FALSE, decodes |-> 1, convs |-> 0]

\* The file ends: its counter moves, the loop goes to the next index.
\* cleanup: the temporary WAV is removed (lines 1816-1821, 1828-1832).
EndFile(r, kind, ok, cleanup) ==
    [r EXCEPT
       !.pc = "loop",
       !.idx = @ + 1,
       !.files_processed = IF ok THEN @ + 1 ELSE @,
       !.files_failed = IF ok THEN @ ELSE @ + 1,
       !.file = [r.file EXCEPT
                   !.kind = kind,
                   !.out = IF cleanup THEN @ \ {TempWav} ELSE @],
       !.wt = 0, !.replaced = FALSE, !.actual_shifts = 0, !.call = NoCall,
       !.mode = "none", !.chunk_idx = 0, !.chunk_sources = <<>>, !.chunk_starts = <<>>,
       !.sources = NoShape,
       !.stem_idx = 0, !.stems_saved = 0,
       !.stop_chunk = FALSE]

\* except Exception of lines 1823-1833: the file is failed, the temporary
\* file removed.
FailFile(r, kind) == EndFile(r, kind, FALSE, TRUE)

\* Mutation of FailContinue: the continue without files_failed += 1.
FailContinue_Uncounted(r, kind) ==
    [EndFile(r, kind, FALSE, FALSE) EXCEPT !.files_failed = r.files_failed]

\* files_failed += 1; continue (lines 1523, 1690): no cleanup.
FailContinue(r, kind) == EndFile(r, kind, FALSE, FALSE)

\* Mutation of chunk_samples: the retry keeps the 15 s chunk length.
chunk_samples_Same(mode) == chunk_seconds_std * sample_rate

\* chunk_samples = chunk_seconds * sample_rate.
chunk_samples(mode) ==
    (IF mode \in {"std15", "ens15"} THEN chunk_seconds_std ELSE chunk_seconds_retry)
      * sample_rate

\* num_chunks (lines 1407, 1533) and the length of range(0, total_samples,
\* chunk_samples) (lines 1462, 1629).
num_chunks(mode, total_samples) ==
    IF mode \in {"std15", "ens15"}
    THEN Max(1, CeilDiv(total_samples, chunk_samples(mode)))
    ELSE CeilDiv(total_samples, chunk_samples(mode))

\* start = chunk_idx * chunk_samples, line 1539.
chunk_start(mode, chunk_idx) == chunk_idx * chunk_samples(mode)

\* end - start of chunk chunk_idx.
chunk_length(mode, total_samples, chunk_idx) ==
    Min(chunk_idx * chunk_samples(mode) + chunk_samples(mode), total_samples)
      - chunk_idx * chunk_samples(mode)

\* if end - start < sample_rate: continue (lines 1415, 1465, 1543, 1632).
tiny_chunk(length) == length < sample_rate

\* The first chunk at or after chunk_idx that is handed to the model.
RECURSIVE NextChunk(_, _, _)
NextChunk(mode, total_samples, chunk_idx) ==
    IF chunk_idx >= num_chunks(mode, total_samples) THEN chunk_idx
    ELSE IF tiny_chunk(chunk_length(mode, total_samples, chunk_idx))
    THEN NextChunk(mode, total_samples, chunk_idx + 1)
    ELSE chunk_idx

\* What apply_model returns for an input of t samples: the time dimension
\* is the input's; the other dimensions are the model's to choose.
ResultShape(res, S, t) ==
    CASE res = "std" -> <<1, S, 2, t>>
      [] res = "mono" -> <<1, S, 1, t>>
      [] res = "fewer" -> <<1, 2, 2, t>>
      [] res = "empty" -> <<0, S, 2, t>>

ShapeResults == {"std", "mono", "fewer", "empty"}

\* batch_dims = [(s[0], s[1], s[2]) for s in shapes], lines 1484, 1573, 1651.
batch_dims(chunk_sources) ==
    {<<chunk_sources[i][1], chunk_sources[i][2], chunk_sources[i][3]>> :
        i \in 1..Len(chunk_sources)}

\* if len(set(batch_dims)) > 1: raise, lines 1487, 1576, 1654.
inconsistent(chunk_sources) == Cardinality(batch_dims(chunk_sources)) > 1

\* Lines 1565-1607 (and the copies 1476-1516, 1643-1683): check the
\* non-time dimensions, pad every chunk to the longest along time,
\* concatenate along time.
merge_chunks(chunk_sources) ==
    IF chunk_sources = <<>> THEN [ok |-> FALSE, shape |-> NoShape]
    ELSE IF inconsistent(chunk_sources) THEN [ok |-> FALSE, shape |-> NoShape]
    ELSE [ok |-> TRUE,
          shape |-> <<chunk_sources[1][1], chunk_sources[1][2], chunk_sources[1][3],
                      Len(chunk_sources) * SeqMax(chunk_sources, 4)>>]

\* Lines 1428-1442, the ensemble chunk path: max_size is the largest
\* shape[2], a chunk whose shape[2] is smaller gets its LAST dimension
\* padded by the difference, and torch.cat(dim=2) needs every other
\* dimension equal, raising a RuntimeError otherwise.
ens_padded(chunk_sources) ==
    [i \in 1..Len(chunk_sources) |->
        LET c == chunk_sources[i]
            max_size == SeqMax(chunk_sources, 3)
        IN  IF c[3] < max_size THEN <<c[1], c[2], c[3], c[4] + (max_size - c[3])>>
            ELSE c]

merge_ensemble(chunk_sources) ==
    LET padded == ens_padded(chunk_sources)
        others == {<<padded[i][1], padded[i][2], padded[i][4]>> : i \in 1..Len(padded)}
    IN  IF chunk_sources = <<>> THEN [ok |-> FALSE, shape |-> NoShape]
        ELSE IF Cardinality(others) > 1 THEN [ok |-> FALSE, shape |-> NoShape]
        ELSE [ok |-> TRUE,
              shape |-> <<padded[1][1], padded[1][2], SeqSum(padded, 3), padded[1][4]>>]

merge(mode, chunk_sources) ==
    IF mode = "ens15" THEN merge_ensemble(chunk_sources) ELSE merge_chunks(chunk_sources)

\* The parameters of the calls of the separation: the whole-file calls of
\* lines 1444-1452 and 1611-1619, the chunk calls of lines 1420-1423,
\* 1468-1471, 1551-1558 and 1635-1638.
main_call(r, mode, samples) ==
    [pass |-> "main",
     shifts |-> CASE mode = "std" -> r.actual_shifts
                  [] mode = "ens" -> Max(r.actual_shifts, 1)
                  [] OTHER -> 0,
     overlap |-> CASE mode = "std" -> r.overlap
                   [] mode = "ens" -> Max(r.overlap, 25)
                   [] mode = "ens15" -> 20
                   [] OTHER -> 10,
     samples |-> samples,
     original |-> ~r.replaced]

\* The parameters of the pre-pass (line 1344) and of the vocal retrieval
\* (line 1728): both run on a whole waveform that holds the vocals.
aux_call(r, pass, cpu) ==
    [pass |-> pass,
     shifts |-> IF cpu THEN 0 ELSE r.actual_shifts,
     overlap |-> IF cpu THEN 10 ELSE r.overlap,
     samples |-> r.wt,
     original |-> TRUE]

\* The model an inference call of the separation uses: ens_model is
\* htdemucs_ft (line 1398).
sep_sources(r) ==
    IF r.mode \in {"ens", "ens15", "ens10"} THEN n_sources("htdemucs_ft")
    ELSE n_sources(r.model)

\* Lines 1382-1411 and 1526-1537: the bar moves to (idx + 0.1) / total
\* (a ZeroDivisionError when total is 0), ensemble mode loads its model,
\* and the first inference call of the separation is made: chunk 0 of a
\* chunked separation when self.is_cpu and duration > 60, the whole
\* waveform otherwise.
separate(r, cpu, ens_ok) ==
    LET ens == use_ensemble(dpg.ai_model)
        chunked == cpu /\ r.wt > ChunkThresholdSeconds * sample_rate
    IN  IF r.total = 0 THEN FailFile(r, "exception")
        ELSE IF ens /\ ~ens_ok THEN FailContinue(r, "separation")
        ELSE IF chunked
        THEN LET mode == IF ens THEN "ens15" ELSE "std15" IN
             [r EXCEPT !.pc = "chunk", !.mode = mode,
                       !.chunk_idx = 0, !.chunk_sources = <<>>, !.file.calls = @ + 1,
                       !.call = main_call(r, mode, chunk_length(mode, r.wt, 0))]
        ELSE LET mode == IF ens THEN "ens" ELSE "std" IN
             [r EXCEPT !.pc = "whole", !.mode = mode,
                       !.file.calls = @ + 1,
                       !.call = main_call(r, mode, r.wt)]

separate_progress(r) ==
    IF r.total = 0 THEN progress ELSE ProgressSeparating(r.idx, r.total)

\* Lines 1687-1706: an empty result fails the file; otherwise the bar
\* moves to (idx + 0.8) / total and the stem loop starts.
separated(r, shape) ==
    IF shape[1] = 0 THEN FailContinue(r, "separation")
    ELSE [r EXCEPT !.pc = "stem", !.sources = shape, !.stem_idx = 0,
                   !.stems_saved = 0, !.stop_chunk = FALSE, !.call = NoCall]

separated_progress(r, shape) ==
    IF shape[1] = 0 THEN progress ELSE ProgressSeparated(r.idx, r.total)

\* Lines 1169-1344: the loop takes the next file while the flag is up,
\* creates its directory, validates and decodes it, and submits the first
\* inference call: the vocal-first pre-pass when the box is checked, the
\* separation otherwise.
StartFile(w, In) ==
    /\ worker[w].pc = "loop"
    /\ worker[w].idx < worker[w].flen
    /\ processing
    /\ LET r == worker[w] IN
       \E exists \in In.exists, file_size \in In.sizes :
         IF ~exists
         THEN /\ worker' = [worker EXCEPT ![w] =
                    FailContinue([r EXCEPT !.file = [NoFile EXCEPT !.kind = "running"]],
                                 "missing")]
              /\ UNCHANGED progress
         ELSE IF too_small(file_size)
         THEN /\ worker' = [worker EXCEPT ![w] =
                    FailContinue([r EXCEPT !.file = [NoFile EXCEPT !.kind = "running",
                                                                  !.size = file_size]],
                                 "small")]
              /\ UNCHANGED progress
         ELSE \E file_ext \in In.exts, prim_ok \in In.decode,
                 conv_ok \in In.decode, retry_ok \in In.decode, total_samples \in In.durs :
                LET a == load_audio(file_ext, file_size, prim_ok, conv_ok, retry_ok)
                    f == [kind |-> "running", size |-> file_size, ext |-> file_ext,
                          prim_ok |-> prim_ok, decodes |-> a.decodes, convs |-> a.convs,
                          calls |-> 0, prepass |-> "none", whole |-> "none",
                          out |-> IF a.temp_wav THEN {TempWav} ELSE {},
                          stems_skipped |-> <<>>, written |-> {}, silent |-> {},
                          denoise |-> {}, clean |-> {}, sigma |-> {}, midi |-> {}, heard |-> {}, notes |-> {}]
                    r1 == [r EXCEPT !.file = f, !.wt = total_samples,
                                    !.actual_shifts =
                                        actual_shifts(is_cpu[1], total_samples, r.shifts)]
                IN  IF ~a.ok
                    THEN /\ worker' = [worker EXCEPT ![w] = FailContinue(r1, "decode")]
                         /\ UNCHANGED progress
                    ELSE IF dpg.vocal_first
                    THEN /\ worker' = [worker EXCEPT ![w] =
                               [r1 EXCEPT !.pc = "vocal_first", !.file.calls = @ + 1,
                                          !.call = aux_call(r1, "prepass", is_cpu[1])]]
                         /\ UNCHANGED progress
                    ELSE \E ens_ok \in In.decode :
                           /\ worker' = [worker EXCEPT ![w] = separate(r1, is_cpu[1], ens_ok)]
                           /\ progress' = separate_progress(r1)
    /\ UNCHANGED <<selected_files, processing, is_cpu, dpg, env>>

\* A test that never finds the vocals.
has_vocals_Never(res, shape) == FALSE

\* A test that only asks for a non-empty result.
has_vocals_NonEmpty(res, shape) ==
    res # "fail" /\ shape[1] > 0 /\ shape[2] > 0

\* init_sources is not None and init_sources.shape[1] > vocal_idx, lines
\* 1348 and 1730, with the indexing init_sources[0, ...] that follows: an
\* exception of the call or of the indexing goes to the same handler.
has_vocals(res, shape) ==
    res # "fail" /\ shape[1] > 0 /\ shape[2] > vocal_idx

\* Lines 1344-1386: the pre-pass returns.  With the vocal index present
\* the working waveform becomes the accompaniment, which is written when
\* export_accompaniment is checked and the write works; a failure leaves
\* the waveform as it was.  Then the separation starts.
VocalFirstStep(w, In) ==
    /\ worker[w].pc = "vocal_first"
    /\ LET r == worker[w] IN
       \E res \in In.prepass, write_ok \in In.decode, ens_ok \in In.decode :
         LET shape == IF res = "fail" THEN NoShape
                      ELSE ResultShape(res, n_sources(r.model), r.wt)
             r0 == [r EXCEPT !.file.prepass = res]
             r1 == IF has_vocals(res, shape)
                   THEN [r0 EXCEPT !.replaced = TRUE,
                                   !.file.out = IF dpg.export_accompaniment /\ write_ok
                                                THEN @ \cup {Accompaniment} ELSE @]
                   ELSE r0
         IN  /\ worker' = [worker EXCEPT ![w] = separate(r1, is_cpu[1], ens_ok)]
             /\ progress' = separate_progress(r1)
    /\ UNCHANGED <<selected_files, processing, is_cpu, dpg, env>>

\* Lines 1444-1524 and 1610-1685: the whole-file call returns.  "oom" is a
\* RuntimeError naming "out of memory" or "shape": the 10 s chunk loop
\* starts.  "runtime" is any other RuntimeError, "other" any other
\* exception: the file fails, in ensemble mode through the handler of
\* line 1521, which leaves the temporary file.
WholeStep(w, In) ==
    /\ worker[w].pc = "whole"
    /\ \E res \in In.whole :
         LET r == [worker[w] EXCEPT !.file.whole = res] IN
         IF res \in ShapeResults
         THEN LET shape == ResultShape(res, sep_sources(r), r.wt)
              IN  /\ worker' = [worker EXCEPT ![w] = separated(r, shape)]
                  /\ progress' = separated_progress(r, shape)
         ELSE /\ UNCHANGED progress
              /\ IF res = "oom"
                 THEN LET mode == IF r.mode = "ens" THEN "ens10" ELSE "std10"
                          first == NextChunk(mode, r.wt, 0)
                      IN  IF first < num_chunks(mode, r.wt)
                          THEN worker' = [worker EXCEPT ![w] =
                                 [r EXCEPT !.pc = "chunk", !.mode = mode,
                                           !.chunk_idx = first, !.chunk_sources = <<>>,
                                           !.file.calls = @ + 1,
                                           !.call = main_call(r, mode,
                                                      chunk_length(mode, r.wt, first))]]
                          ELSE worker' = [worker EXCEPT ![w] = FailFile(r, "no_chunks")]
                 ELSE IF res = "other" /\ r.mode = "ens"
                 THEN worker' = [worker EXCEPT ![w] = FailContinue(r, "separation")]
                 ELSE worker' = [worker EXCEPT ![w] = FailFile(r, "separation")]
    /\ UNCHANGED <<selected_files, processing, is_cpu, dpg, env>>

\* Lines 1412-1442, 1462-1516, 1538-1607, 1629-1683: the call for chunk
\* chunk_idx returns (a failed call is dropped), and either the next chunk
\* that is not tiny is submitted or the chunks are merged.  A merge that
\* raises fails the file: no chunk returned a result ("no_chunks"), or the
\* results do not fit together ("chunk_shape").
ChunkStep(w, In) ==
    /\ worker[w].pc = "chunk"
    /\ LET r == worker[w] IN
       \E res \in In.results :
         LET length == chunk_length(r.mode, r.wt, r.chunk_idx)
             cs == IF res = "fail" THEN r.chunk_sources
                   ELSE Append(r.chunk_sources, ResultShape(res, sep_sources(r), length))
             starts == IF res = "fail" THEN r.chunk_starts
                       ELSE Append(r.chunk_starts, chunk_start(r.mode, r.chunk_idx))
             next == NextChunk(r.mode, r.wt, r.chunk_idx + 1)
             m == merge(r.mode, cs)
             r1 == [r EXCEPT !.chunk_sources = cs, !.chunk_starts = starts]
         IN  IF next < num_chunks(r.mode, r.wt)
             THEN /\ worker' = [worker EXCEPT ![w] =
                        [r1 EXCEPT !.chunk_idx = next, !.file.calls = @ + 1,
                                   !.call = main_call(r, r.mode,
                                              chunk_length(r.mode, r.wt, next))]]
                  /\ UNCHANGED progress
             ELSE IF m.ok
             THEN /\ worker' = [worker EXCEPT ![w] = separated(r1, m.shape)]
                  /\ progress' = separated_progress(r1, m.shape)
             ELSE /\ worker' = [worker EXCEPT ![w] =
                        FailFile(r1, IF cs = <<>> THEN "no_chunks" ELSE "chunk_shape")]
                  /\ UNCHANGED progress
    /\ UNCHANGED <<selected_files, processing, is_cpu, dpg, env>>

\* Lines 1776-1778: apply_denoising is called for the stem just saved
\* when the box is checked and the level is positive, with the level of
\* the slider (line 1781), in hundredths.
should_denoise(stem, apply_denoising, denoise_level) ==
    apply_denoising /\ denoise_level > 0

denoise_with(denoise_level) == denoise_level

\* A multiplier with the sign of the slope turned.
sigma_threshold_Rising(denoise_level) == 250 + 5 * denoise_level

\* sigma_threshold = 2.5 - (denoise_level * 5.0), line 1979, in hundredths
\* for a level in hundredths.
sigma_threshold(denoise_level) == 250 - 5 * denoise_level

\* A step that removes the stem file before it knows how the call ended.
after_denoise_RemoveFirst(out, stem, den_ok) ==
    IF den_ok THEN out ELSE out \ {<<stem, "wav">>}

\* Lines 1780-1786: apply_denoising writes temp_clean and returns True,
\* then the stem file is removed and temp_clean renamed to it; or it
\* returns False and the directory is left alone.
after_denoise(out, stem, den_ok) ==
    LET stem_file == <<stem, "wav">>
        temp_clean == <<stem, "clean.wav">>
    IN  IF den_ok
        THEN (((out \cup {temp_clean}) \ {stem_file}) \ {temp_clean}) \cup {stem_file}
        ELSE out

\* ------------------------------------------------------- transcription
\* What the analysis of a stem's audio gives audio_to_midi:
\*   fail     HAS_MIDI is False, or librosa raised
\*   onsets   the detected onsets in order, as <<time in ms, the rounded
\*            hz_to_midi of the strongest pitch at the onset, 0 when the
\*            pitch is not positive>>
\* A note is [pitch, start, duration], start and duration in thousandths
\* of a beat.
tempo == 120

\* seconds * (tempo / 60), lines 2402-2403, 2457; ms to thousandths of a beat.
to_beats(ms) == (ms * tempo) \div 60

\* midi_note = max(21, min(108, midi_note)), line 2391.
clamp_note(midi_note) == Max(21, Min(108, midi_note))

\* A clamp that forgets the upper limit.
clamp_duration_NoCap(duration) == Max(100, duration)

\* duration = max(0.1, min(duration, 4.0)), line 2399, in ms.
clamp_duration(duration) == Max(100, Min(duration, 4000))

\* Lines 2393-2397: the time to the next onset, 0.5 s for the last one.
note_duration(onsets, i) ==
    IF i < Len(onsets) THEN onsets[i + 1][1] - onsets[i][1] ELSE 500

\* Lines 2383-2406: the notes of the onsets from the i-th on.
RECURSIVE melodic_notes(_, _)
melodic_notes(onsets, i) ==
    IF i > Len(onsets) THEN <<>>
    ELSE IF onsets[i][2] > 0
    THEN <<[pitch |-> clamp_note(onsets[i][2]),
            start |-> to_beats(onsets[i][1]),
            duration |-> to_beats(clamp_duration(note_duration(onsets, i)))]>>
         \o melodic_notes(onsets, i + 1)
    ELSE melodic_notes(onsets, i + 1)

\* A melodic mode that writes the file whatever it found.
melodic_to_midi_Always(onsets) ==
    [ok |-> TRUE, notes |-> melodic_notes(onsets, 1)]

\* _melodic_to_midi, lines 2330-2419: no onset, or no onset with a pitch,
\* returns False and writes nothing.
melodic_to_midi(onsets) ==
    LET notes == melodic_notes(onsets, 1) IN
    IF Len(onsets) = 0 THEN [ok |-> FALSE, notes |-> <<>>]
    ELSE IF Len(notes) > 0 THEN [ok |-> TRUE, notes |-> notes]
    ELSE [ok |-> FALSE, notes |-> <<>>]

\* Lines 2456-2462: kick and snare alternate; the duration 0.25 is handed
\* to addNote as it is, in beats.
drum_note(onsets, i) ==
    [pitch |-> IF (i - 1) % 2 = 0 THEN 36 ELSE 38,
     start |-> to_beats(onsets[i][1]),
     duration |-> 250]

\* _drums_to_midi, lines 2421-2465.
drums_to_midi(onsets) ==
    IF Len(onsets) = 0 THEN [ok |-> FALSE, notes |-> <<>>]
    ELSE [ok |-> TRUE, notes |-> [i \in 1..Len(onsets) |-> drum_note(onsets, i)]]

\* stem.lower(), line 1791.
lower(stem) ==
    CASE stem = "Drums" -> "drums"
      [] stem = "Bass" -> "bass"
      [] stem = "Other" -> "other"
      [] stem = "Vocals" -> "vocals"
      [] stem = "Guitar" -> "guitar"
      [] stem = "Piano" -> "piano"

\* audio_to_midi, lines 2300-2328.
audio_to_midi(heard, stem_type) ==
    IF heard.fail THEN [ok |-> FALSE, notes |-> <<>>]
    ELSE IF stem_type = "drums" THEN drums_to_midi(heard.onsets)
    ELSE melodic_to_midi(heard.onsets)

\* What an analysis found: lines 2311-2313 and 2326-2328 (a failure),
\* 2353 and 2432 (no onset), 2388 and 2408 (no onset with a pitch, in the
\* melodic mode).
found(heard, stem_type) ==
    IF heard.fail THEN "fail"
    ELSE IF Len(heard.onsets) = 0 THEN "no_onsets"
    ELSE IF stem_type # "drums" /\ \A i \in 1..Len(heard.onsets) : heard.onsets[i][2] <= 0
    THEN "no_notes"
    ELSE "notes"

\* Analyses: none (a failure), no onset, an onset without pitch, one note.
Unheard == [fail |-> TRUE, onsets |-> <<>>]
Heard(onsets) == [fail |-> FALSE, onsets |-> onsets]
NoOnsets == Heard(<<>>)
NoPitch == Heard(<<<<1000, 0>>>>)
OneNote == Heard(<<<<1000, 60>>>>)

\* The stems line 1789 sends to audio_to_midi.
MidiStems == {"Vocals", "Bass", "Piano", "Guitar", "Drums"}

\* Lines 1751-1803: what happens to one stem's audio.  "saved": the file
\* is written and is over 1 KB; "silent": its peak is under 1e-4;
\* "small": the written file is 1 KB or less and is removed; "error": an
\* exception, logged.
save_stem(r, stem, pass, how, den_ok, heard) ==
    IF how = "saved"
    THEN LET stem_file == <<stem, "wav">>
             den == should_denoise(stem, dpg.apply_denoising, dpg.denoise_level)
             mid == dpg.export_midi /\ stem \in MidiStems
             midi == audio_to_midi(heard, lower(stem))
         IN  [r EXCEPT
                !.stems_saved = @ + 1,
                !.file.written = @ \cup {<<stem, pass>>},
                !.file.denoise = IF den
                                 THEN @ \cup {<<stem, denoise_with(dpg.denoise_level), den_ok>>}
                                 ELSE @,
                !.file.clean = IF den /\ den_ok THEN @ \cup {stem} ELSE @,
                !.file.sigma = IF den /\ den_ok
                               THEN @ \cup {<<stem, sigma_threshold(denoise_with(dpg.denoise_level))>>}
                               ELSE @,
                !.file.midi = IF mid THEN @ \cup {stem} ELSE @,
                !.file.out =
                    LET written == @ \cup {stem_file}
                        denoised == IF den THEN after_denoise(written, stem, den_ok)
                                    ELSE written
                    IN  IF mid /\ midi.ok THEN denoised \cup {<<stem, "mid">>}
                        ELSE denoised,
                !.file.heard = IF mid THEN @ \cup {<<stem, found(heard, lower(stem))>>}
                               ELSE @,
                !.file.notes = IF mid /\ midi.ok THEN @ \cup {<<stem, midi.notes>>}
                               ELSE @]
    ELSE IF how = "silent"
    THEN [r EXCEPT !.file.silent = @ \cup {stem}]
    ELSE r

\* A test that sends every stem to the retrieval of the main pass.
retrieve_vocals_Never(stem) == FALSE

\* vocal_first and stem.lower() == "vocals", line 1722.
retrieve_vocals(stem) == dpg.vocal_first /\ stem = "Vocals"

\* Lines 1709-1750: one turn of the stem loop while the flag is up.  The
\* bar moves first.  Vocals under vocal-first are fetched by a new
\* inference call on the original waveform; a stem whose index the result
\* does not have is skipped.
StemStep(w, In) ==
    /\ worker[w].pc = "stem"
    /\ worker[w].stem_idx < Len(stems)
    /\ processing
    /\ LET r == worker[w]
           stem == stems[r.stem_idx + 1]
       IN  /\ progress' = ProgressStem(r.idx, r.total, r.stem_idx, Len(stems))
           /\ IF retrieve_vocals(stem)
              THEN worker' = [worker EXCEPT ![w] =
                     [r EXCEPT !.pc = "vocals_pass", !.file.calls = @ + 1,
                               !.call = aux_call(r, "vocals", is_cpu[1])]]
              ELSE IF stem_indices(stem) >= r.sources[2]
              THEN worker' = [worker EXCEPT ![w] =
                     [r EXCEPT !.stem_idx = @ + 1,
                               !.file.stems_skipped = Append(@, <<stem, "unavailable">>)]]
              ELSE \E how \in In.stem_out, den_ok \in In.denoise, heard \in In.midi :
                     worker' = [worker EXCEPT ![w] =
                       [save_stem(r, stem, "main", how, den_ok, heard)
                          EXCEPT !.stem_idx = @ + 1]]
    /\ UNCHANGED <<selected_files, processing, is_cpu, dpg, env>>

\* Lines 1726-1740: the vocal retrieval call returns.
VocalsPass(w, In) ==
    /\ worker[w].pc = "vocals_pass"
    /\ LET r == worker[w] IN
       \E res \in In.prepass, how \in In.stem_out,
          den_ok \in In.denoise, heard \in In.midi :
         LET shape == IF res = "fail" THEN NoShape
                      ELSE ResultShape(res, n_sources(r.model), r.wt)
             stem == stems[r.stem_idx + 1]
             r1 == IF has_vocals(res, shape)
                   THEN save_stem(r, stem, "vocals", how, den_ok, heard)
                   ELSE [r EXCEPT !.file.stems_skipped =
                           Append(@, <<stem, IF res = "fail" THEN "retrieval failed"
                                             ELSE "vocal-first failed">>)]
         IN  worker' = [worker EXCEPT ![w] =
               [r1 EXCEPT !.pc = "stem", !.stem_idx = @ + 1, !.call = NoCall]]
    /\ UNCHANGED <<selected_files, processing, is_cpu, progress, dpg, env>>

\* Lines 1709-1711 and 1805-1821: the stem loop ends (every stem handled,
\* or the flag is down); the file counts as processed when a stem was
\* saved, as failed otherwise, and the temporary file is removed.
FileDone(w) ==
    /\ worker[w].pc = "stem"
    /\ worker[w].stem_idx >= Len(stems) \/ ~processing
    /\ LET r == worker[w] IN
       worker' = [worker EXCEPT ![w] =
         EndFile(r, IF r.stems_saved > 0 THEN "processed" ELSE "nostems",
                 r.stems_saved > 0, TRUE)]
    /\ UNCHANGED <<selected_files, processing, is_cpu, progress, dpg, env>>

\* ------------------------------------------------------ specifications
Seconds(s) == s * sample_rate

\* The state after StemWeaverGUI.__init__ and build_ui, with a file list,
\* settings and an installation drawn from the given sets.
InitWith(Lists, Settings, Envs) ==
    /\ selected_files \in Lists
    /\ processing = FALSE
    /\ is_cpu = <<>>
    /\ progress = Zero
    /\ dpg \in Settings
    /\ env \in Envs
    /\ worker = [w \in Workers |-> IdleWorker]

\* --- Spec: the session.  Start and Stop presses interleave with up to
\* two threads.  Files are well-formed 30 s WAV files, inference and stem
\* writes succeed; a model may fail to load.
InSession ==
    [gone |-> {0, 1},
     outdir |-> {"ok", "unwritable"},
     exists |-> {TRUE},
     sizes |-> {5000},
     exts |-> {".wav"},
     decode |-> {TRUE},
     durs |-> {Seconds(30)},
     prepass |-> {"std"},
     whole |-> {"std"},
     results |-> {"std"},
     stem_out |-> {"saved"},
     denoise |-> {TRUE},
     midi |-> {OneNote}]

SettingsSession ==
    [ai_model : {Balanced}, checked : {{"Vocals", "Drums"}}, quality : {3},
     device_select : {"CPU"}, vocal_first : {FALSE}, export_accompaniment : {FALSE},
     apply_denoising : {TRUE}, denoise_level : {8}, export_midi : {FALSE}]

EnvSession ==
    [HAS_AUDIO_LIBS : {TRUE}, HAS_DEMUCS : {TRUE}, cuda : {FALSE},
     avail : {{}, ModelNames}]

Init == InitWith(1..MaxFiles, SettingsSession, EnvSession)

Next ==
    \/ Start(Workers, InSession)
    \/ Stop
    \/ \E w \in Workers :
         \/ Begin(w, InSession)
         \/ LoadModel(w)
         \/ StartFile(w, InSession)
         \/ WholeStep(w, InSession)
         \/ StemStep(w, InSession)
         \/ FileDone(w)
         \/ EndLoop(w)
         \/ Finish(w)

Spec == Init /\ [][Next]_vars

\* --- SpecList: the file list is edited while one thread runs.
InitList == InitWith(0..MaxFiles, SettingsSession, EnvSession)

NextList ==
    \/ Start({1}, InSession)
    \/ Stop
    \/ AddFile
    \/ ClearFiles
    \/ Begin(1, InSession)
    \/ LoadModel(1)
    \/ StartFile(1, InSession)
    \/ WholeStep(1, InSession)
    \/ StemStep(1, InSession)
    \/ FileDone(1)
    \/ EndLoop(1)
    \/ Finish(1)

SpecList == InitList /\ [][NextList]_vars

\* --- SpecDevice: the session with the device widget.  Start and Stop
\* presses and changes of the device interleave with up to two threads;
\* CUDA is there or not.  Files are well-formed 30 s WAV files and every
\* call succeeds.
InDevice ==
    [gone |-> {0},
     outdir |-> {"ok"},
     exists |-> {TRUE},
     sizes |-> {5000},
     exts |-> {".wav"},
     decode |-> {TRUE},
     durs |-> {Seconds(30)},
     prepass |-> {"std"},
     whole |-> {"std"},
     results |-> {"std"},
     stem_out |-> {"saved"},
     denoise |-> {TRUE},
     midi |-> {OneNote}]

SettingsDevice ==
    [ai_model : {Balanced}, checked : {{"Vocals", "Drums"}}, quality : {3},
     device_select : {"CPU", "GPU"}, vocal_first : {FALSE}, export_accompaniment : {FALSE},
     apply_denoising : {TRUE}, denoise_level : {8}, export_midi : {FALSE}]

EnvDevice ==
    [HAS_AUDIO_LIBS : {TRUE}, HAS_DEMUCS : {TRUE}, cuda : BOOLEAN,
     avail : {ModelNames}]

InitDevice == InitWith(1..MaxFiles, SettingsDevice, EnvDevice)

NextDevice ==
    \/ Start(Workers, InDevice)
    \/ Stop
    \/ SelectDevice
    \/ \E w \in Workers :
         \/ Begin(w, InDevice)
         \/ LoadModel(w)
         \/ StartFile(w, InDevice)
         \/ WholeStep(w, InDevice)
         \/ StemStep(w, InDevice)
         \/ FileDone(w)
         \/ EndLoop(w)
         \/ Finish(w)

SpecDevice == InitDevice /\ [][NextDevice]_vars

\* --- SpecFile: one thread works through a batch of 20 s files of every
\* kind: missing, too small, large, undecodable, convertible; the model
\* calls and the stem writes fail in every way.  Every listed file exists
\* when Start is pressed; a Start is accepted only when no thread is alive.
InBatch ==
    [gone |-> {0},
     outdir |-> {"ok", "unwritable", "error"},
     exists |-> BOOLEAN,
     sizes |-> {999, 1000, 600 * MB},
     exts |-> {".wav", ".mp3"},
     decode |-> BOOLEAN,
     durs |-> {Seconds(20)},
     prepass |-> {"std", "fail"},
     whole |-> {"std", "empty", "oom", "runtime", "other"},
     results |-> {"std", "fail"},
     stem_out |-> {"saved", "error"},
     denoise |-> {TRUE},
     midi |-> {OneNote}]

SettingsBatch ==
    [ai_model : {Balanced, SixStem, Ensemble},
     checked : {{"Vocals", "Drums"}, {"Piano"}},
     quality : {3},
     device_select : {"CPU"},
     vocal_first : BOOLEAN,
     export_accompaniment : {TRUE},
     apply_denoising : {TRUE}, denoise_level : {8}, export_midi : {FALSE}]

EnvBatch ==
    [HAS_AUDIO_LIBS : {TRUE}, HAS_DEMUCS : {TRUE}, cuda : {FALSE},
     avail : {{}, {"htdemucs_ft"}, ModelNames}]

InitFile == InitWith(1..MaxFiles, SettingsBatch, EnvBatch)

NextFile ==
    \/ Start({1}, InBatch)
    \/ Stop
    \/ Begin(1, InBatch)
    \/ LoadModel(1)
    \/ StartFile(1, InBatch)
    \/ VocalFirstStep(1, InBatch)
    \/ WholeStep(1, InBatch)
    \/ ChunkStep(1, InBatch)
    \/ StemStep(1, InBatch)
    \/ VocalsPass(1, InBatch)
    \/ FileDone(1)
    \/ EndLoop(1)
    \/ Finish(1)

SpecFile == InitFile /\ [][NextFile]_vars

\* --- SpecChunk: the chunked separation engine.  One thread on the CPU
\* separates well-formed files of every interesting duration; a chunk's
\* call returns the model's shape, a mono shape, or fails.  Every listed
\* file exists when Start is pressed; a Start is accepted only when no
\* thread is alive.
InChunk ==
    [gone |-> {0},
     outdir |-> {"ok"},
     exists |-> {TRUE},
     sizes |-> {5000},
     exts |-> {".wav"},
     decode |-> {TRUE},
     durs |-> {Seconds(30), Seconds(60) + 1, Seconds(75) - 1, Seconds(75)},
     prepass |-> {"std"},
     whole |-> {"std", "oom"},
     results |-> {"std", "mono", "fail"},
     stem_out |-> {"saved"},
     denoise |-> {TRUE},
     midi |-> {OneNote}]

SettingsChunk ==
    [ai_model : {Balanced, Ensemble},
     checked : {{"Vocals", "Drums"}},
     quality : {3},
     device_select : {"CPU"},
     vocal_first : {FALSE},
     export_accompaniment : {FALSE},
     apply_denoising : {TRUE}, denoise_level : {8}, export_midi : {FALSE}]

EnvChunk ==
    [HAS_AUDIO_LIBS : {TRUE}, HAS_DEMUCS : {TRUE}, cuda : {FALSE},
     avail : {ModelNames}]

InitChunk == InitWith(1..MaxFiles, SettingsChunk, EnvChunk)

NextChunk1 ==
    \/ Start({1}, InChunk)
    \/ Stop
    \/ Begin(1, InChunk)
    \/ LoadModel(1)
    \/ StartFile(1, InChunk)
    \/ WholeStep(1, InChunk)
    \/ ChunkStep(1, InChunk)
    \/ StemStep(1, InChunk)
    \/ FileDone(1)
    \/ EndLoop(1)
    \/ Finish(1)

SpecChunk == InitChunk /\ [][NextChunk1]_vars

\* --- SpecQuality: the inference parameters.  One thread separates
\* well-formed files under every quality level of the slider (lines
\* 443-451), every model variant and either device; the files are short,
\* just over the chunking threshold, and over the 120 s and 300 s
\* thresholds of actual_shifts.  Every call succeeds; denoising and MIDI
\* export are off.
QualityLevels == 1..5

InQuality ==
    [gone |-> {0},
     outdir |-> {"ok"},
     exists |-> {TRUE},
     sizes |-> {5000},
     exts |-> {".wav"},
     decode |-> {TRUE},
     durs |-> {Seconds(30), Seconds(61), Seconds(121), Seconds(301)},
     prepass |-> {"std"},
     whole |-> {"std"},
     results |-> {"std"},
     stem_out |-> {"saved"},
     denoise |-> {TRUE},
     midi |-> {OneNote}]

SettingsQuality ==
    [ai_model : ModelTypes,
     checked : {{"Vocals", "Drums"}},
     quality : QualityLevels,
     device_select : {"CPU", "GPU"},
     vocal_first : BOOLEAN,
     export_accompaniment : {FALSE},
     apply_denoising : {FALSE}, denoise_level : {8}, export_midi : {FALSE}]

EnvQuality ==
    [HAS_AUDIO_LIBS : {TRUE}, HAS_DEMUCS : {TRUE}, cuda : {TRUE},
     avail : {ModelNames}]

InitQuality == InitWith(1..MaxFiles, SettingsQuality, EnvQuality)

NextQuality ==
    \/ Start({1}, InQuality)
    \/ Stop
    \/ Begin(1, InQuality)
    \/ LoadModel(1)
    \/ StartFile(1, InQuality)
    \/ VocalFirstStep(1, InQuality)
    \/ WholeStep(1, InQuality)
    \/ ChunkStep(1, InQuality)
    \/ StemStep(1, InQuality)
    \/ VocalsPass(1, InQuality)
    \/ FileDone(1)
    \/ EndLoop(1)
    \/ Finish(1)

SpecQuality == InitQuality /\ [][NextQuality]_vars

\* --- SpecStem: the stem loop.  One thread separates well-formed 20 s
\* files whole, with and without the vocal-first pre-pass; the pre-pass
\* and the vocal retrieval return the model's sources, fewer, or fail; a
\* stem is saved, silent, too small or fails to be written; denoising and
\* MIDI export are on or off and succeed or fail.
DenoiseLevels == {0, 8, 19}

InStem ==
    [gone |-> {0},
     outdir |-> {"ok"},
     exists |-> {TRUE},
     sizes |-> {5000},
     exts |-> {".wav"},
     decode |-> {TRUE},
     durs |-> {Seconds(20)},
     prepass |-> {"std", "fewer", "fail"},
     whole |-> {"std"},
     results |-> {"std"},
     stem_out |-> {"saved", "silent", "small", "error"},
     denoise |-> BOOLEAN,
     midi |-> {Unheard, NoOnsets, NoPitch, OneNote}]

SettingsStem ==
    [ai_model : {Balanced},
     checked : {{"Vocals", "Drums"}},
     quality : {3},
     device_select : {"CPU"},
     vocal_first : BOOLEAN,
     export_accompaniment : {TRUE},
     apply_denoising : BOOLEAN,
     denoise_level : DenoiseLevels,
     export_midi : BOOLEAN]

EnvStem ==
    [HAS_AUDIO_LIBS : {TRUE}, HAS_DEMUCS : {TRUE}, cuda : {FALSE},
     avail : {ModelNames}]

InitStem == InitWith(1..MaxFiles, SettingsStem, EnvStem)

NextStem ==
    \/ Start({1}, InStem)
    \/ Stop
    \/ Begin(1, InStem)
    \/ LoadModel(1)
    \/ StartFile(1, InStem)
    \/ VocalFirstStep(1, InStem)
    \/ WholeStep(1, InStem)
    \/ StemStep(1, InStem)
    \/ VocalsPass(1, InStem)
    \/ FileDone(1)
    \/ EndLoop(1)
    \/ Finish(1)

SpecStem == InitStem /\ [][NextStem]_vars

\* --- SpecDenoise: the denoise step at every level of the slider (lines
\* 523-530), in hundredths.  One thread separates well-formed 20 s files
\* whole and saves both stems; apply_denoising succeeds or fails.
SliderLevels == 0..30

InDenoise ==
    [gone |-> {0},
     outdir |-> {"ok"},
     exists |-> {TRUE},
     sizes |-> {5000},
     exts |-> {".wav"},
     decode |-> {TRUE},
     durs |-> {Seconds(20)},
     prepass |-> {"std"},
     whole |-> {"std"},
     results |-> {"std"},
     stem_out |-> {"saved"},
     denoise |-> BOOLEAN,
     midi |-> {OneNote}]

SettingsDenoise ==
    [ai_model : {Balanced},
     checked : {{"Vocals", "Drums"}},
     quality : {3},
     device_select : {"CPU"},
     vocal_first : {FALSE},
     export_accompaniment : {FALSE},
     apply_denoising : {TRUE},
     denoise_level : SliderLevels,
     export_midi : {FALSE}]

EnvDenoise ==
    [HAS_AUDIO_LIBS : {TRUE}, HAS_DEMUCS : {TRUE}, cuda : {FALSE},
     avail : {ModelNames}]

InitDenoise == InitWith(1..MaxFiles, SettingsDenoise, EnvDenoise)

NextDenoise ==
    \/ Start({1}, InDenoise)
    \/ Stop
    \/ Begin(1, InDenoise)
    \/ LoadModel(1)
    \/ StartFile(1, InDenoise)
    \/ WholeStep(1, InDenoise)
    \/ StemStep(1, InDenoise)
    \/ FileDone(1)
    \/ EndLoop(1)
    \/ Finish(1)

SpecDenoise == InitDenoise /\ [][NextDenoise]_vars

\* --- SpecMidi: the transcription.  One thread separates well-formed
\* 20 s files whole with MIDI export on and saves one stem, Vocals (the
\* melodic mode), Drums or Other; the analysis of the stem fails or detects up
\* to MaxOnsets onsets, each a gap after the one before (none, 50 ms, 1 s,
\* 5 s) with no pitch or a pitch below, within or above the piano range.
MaxOnsets == 2
Gaps == {0, 50, 1000, 5000}
Pitches == {0, 10, 60, 120}

RECURSIVE onset_time(_, _)
onset_time(g, i) == IF i = 0 THEN 0 ELSE onset_time(g, i - 1) + g[i][1]

Analyses ==
    {Unheard} \cup
    {Heard([i \in 1..Len(g) |-> <<onset_time(g, i), g[i][2]>>]) :
        g \in UNION {[1..n -> Gaps \X Pitches] : n \in 0..MaxOnsets}}

InMidi ==
    [gone |-> {0},
     outdir |-> {"ok"},
     exists |-> {TRUE},
     sizes |-> {5000},
     exts |-> {".wav"},
     decode |-> {TRUE},
     durs |-> {Seconds(20)},
     prepass |-> {"std"},
     whole |-> {"std"},
     results |-> {"std"},
     stem_out |-> {"saved"},
     denoise |-> {TRUE},
     midi |-> Analyses]

SettingsMidi ==
    [ai_model : {Balanced},
     checked : {{"Vocals"}, {"Drums"}, {"Other"}},
     quality : {3},
     device_select : {"CPU"},
     vocal_first : {FALSE},
     export_accompaniment : {FALSE},
     apply_denoising : {FALSE},
     denoise_level : {8},
     export_midi : {TRUE}]

EnvMidi ==
    [HAS_AUDIO_LIBS : {TRUE}, HAS_DEMUCS : {TRUE}, cuda : {FALSE},
     avail : {ModelNames}]

InitMidi == InitWith(1..MaxFiles, SettingsMidi, EnvMidi)

NextMidi ==
    \/ Start({1}, InMidi)
    \/ Stop
    \/ Begin(1, InMidi)
    \/ LoadModel(1)
    \/ StartFile(1, InMidi)
    \/ WholeStep(1, InMidi)
    \/ StemStep(1, InMidi)
    \/ FileDone(1)
    \/ EndLoop(1)
    \/ Finish(1)

SpecMidi == InitMidi /\ [][NextMidi]_vars

\* --- SpecLive: every way process_files returns, under fair scheduling.
\* Libraries may be missing, the output directory may be unwritable or
\* raise an unexpected exception, the checked stems may all be outside the
\* model's, no model may load, and Stop may be pressed at any point.  Up
\* to two threads run.
InLive ==
    [gone |-> {0},
     outdir |-> {"ok", "unwritable", "error"},
     exists |-> {TRUE},
     sizes |-> {5000},
     exts |-> {".wav"},
     decode |-> {TRUE},
     durs |-> {Seconds(30)},
     prepass |-> {"std"},
     whole |-> {"std"},
     results |-> {"std"},
     stem_out |-> {"saved"},
     denoise |-> {TRUE},
     midi |-> {OneNote}]

SettingsLive ==
    [ai_model : {Balanced},
     checked : {{"Vocals", "Drums"}, {"Piano"}},
     quality : {3},
     device_select : {"CPU"},
     vocal_first : {FALSE},
     export_accompaniment : {FALSE},
     apply_denoising : {FALSE}, denoise_level : {8}, export_midi : {FALSE}]

EnvLive ==
    [HAS_AUDIO_LIBS : BOOLEAN, HAS_DEMUCS : BOOLEAN, cuda : {FALSE},
     avail : {{}, ModelNames}]

InitLive == InitWith(1..MaxFiles, SettingsLive, EnvLive)

\* One step of the thread in slot w: threading.Thread(target=
\* self.process_files, daemon=True).start(), lines 961-963, runs the
\* method body from line 965 to the finally clause of line 1867.
Thread(w) ==
    \/ Begin(w, InLive)
    \/ LoadModel(w)
    \/ StartFile(w, InLive)
    \/ WholeStep(w, InLive)
    \/ StemStep(w, InLive)
    \/ FileDone(w)
    \/ EndLoop(w)
    \/ Finish(w)

NextLive ==
    \/ Start(Workers, InLive)
    \/ Stop
    \/ \E w \in Workers : Thread(w)

\* A started thread is scheduled by the interpreter until its target
\* returns, and every library call of the body is taken to return or
\* raise: each thread's next step is weakly fair.  The user's presses of
\* Start and Stop are not.
SpecLive ==
    InitLive /\ [][NextLive]_vars /\ \A w \in Workers : WF_vars(Thread(w))

\* -------------------------------------------------------------- claims
Candidates == {models_to_try(dpg.ai_model)[i] : i \in 1..Len(models_to_try(dpg.ai_model))}
ChunkedModes == {"std15", "ens15", "std10", "ens10"}

\* C1 (SpecFile): in a batch whose model loaded and in which Stop was not
\* pressed, the loop is never cut short, every file the loop has passed
\* is counted once (files_processed + files_failed is the loop index),
\* and at the summary the two counters add up to the number of files,
\* whatever way the files failed.
C1_EveryFileCounted ==
    \A w \in Workers :
        LET r == worker[w] IN
        r.clean =>
          /\ r.pc \in InFile \cup {"loop"} =>
               /\ processing
               /\ r.idx <= r.flen
               /\ r.files_processed + r.files_failed = r.idx
          /\ r.pc = "summary" => r.files_processed + r.files_failed = r.flen

\* A batch of two files reaches its summary without a Stop, one file
\* processed and one failed.
C1_Witness ==
    \E w \in Workers :
        /\ worker[w].pc = "summary"
        /\ worker[w].clean
        /\ worker[w].flen = 2
        /\ worker[w].files_processed = 1
        /\ worker[w].files_failed = 1

\* C2 (Spec): while a process_files thread is alive, a step that is not
\* the acceptance of a Start never lowers the progress bar and leaves it
\* in [0, 1].
C2_ProgressMonotone ==
    [][((\E w \in Workers : Alive(w))
          /\ ~(\E w \in Workers : worker[w].pc # "spawned" /\ worker'[w].pc = "spawned"))
        => /\ Leq(progress, progress')
           /\ Leq(Zero, progress')
           /\ Leq(progress', One)]_vars

\* C3 (Spec): a thread that was inside a file when Stop was pressed, with
\* no Start accepted since, starts no further file, and returns only
\* through the summary.
C3_StopEndsBatch ==
    [][\A w \in Workers :
         worker[w].stopped =>
           /\ ~(/\ worker[w].pc = "loop"
                /\ \/ worker'[w].pc \in InFile
                   \/ worker'[w].idx > worker[w].idx)
           /\ (worker'[w].pc = "done" => worker[w].pc = "summary")]_vars

\* C4 (SpecChunk): after a Stop pressed during a chunk loop, that loop
\* makes no further inference call.
C4_NoChunkAfterStop ==
    [][\A w \in Workers :
         (worker[w].stop_chunk /\ worker[w].pc = "chunk")
           => worker'[w].file.calls = worker[w].file.calls]_vars

\* C5 (Spec): at most one thread is inside a file at any moment.
C5_OneFileAtATime ==
    Cardinality({w \in Workers : worker[w].pc \in InFile}) <= 1

\* C6 (SpecFile): when no candidate of the selected variant can be loaded,
\* no thread ever enters the file loop, no file is touched and none is
\* counted, and a thread that has returned did not return through the
\* summary and left the processing flag down.
C6_NoModelAborts ==
    (Candidates \cap env.avail = {}) =>
        \A w \in Workers :
            /\ worker[w].pc \notin InFile \cup {"loop", "summary"}
            /\ worker[w].file.kind = "none"
            /\ worker[w].files_processed = 0
            /\ worker[w].pc = "done" =>
                 /\ worker[w].exit # "summary"
                 /\ ~processing

\* Every candidate failed to load and the thread returned on that path.
C6_Witness ==
    /\ Candidates \cap env.avail = {}
    /\ \E w \in Workers : worker[w].pc = "done" /\ worker[w].exit = "no_model"
    /\ ~processing

\* C7 (SpecFile): an existing file under 1000 bytes ends as "small" with
\* no decode, no inference call and nothing in its output directory; the
\* step that ends it adds one to files_failed, leaves files_processed,
\* and returns to the loop with the flag as it was.
C7_SmallState ==
    \A w \in Workers :
        LET f == worker[w].file IN
        (f.kind \notin {"none", "missing"} /\ f.size < 1000) =>
            /\ f.kind = "small"
            /\ f.decodes = 0
            /\ f.calls = 0
            /\ f.out = {}
            /\ worker[w].pc \in {"loop", "summary"}

C7_SmallStep ==
    \A w \in Workers :
        (worker'[w].file.kind = "small" /\ worker'[w].idx = worker[w].idx + 1) =>
            /\ worker'[w].files_failed = worker[w].files_failed + 1
            /\ worker'[w].files_processed = worker[w].files_processed
            /\ worker'[w].pc = "loop"
            /\ processing' = processing

C7_SmallFileFails == []C7_SmallState /\ [][C7_SmallStep]_vars

\* A 999-byte first file has failed and the loop is about to take the
\* second file.
C7_Witness ==
    \E w \in Workers :
        /\ worker[w].file.kind = "small"
        /\ worker[w].file.size = 999
        /\ worker[w].pc = "loop"
        /\ worker[w].idx = 1
        /\ worker[w].files_failed = 1
        /\ worker[w].flen = 2
        /\ processing

\* C8 (SpecFile): for a file whose first decode failed, the fallback
\* conversion was attempted, the decode was called at most twice, and a
\* file that failed to decode had no inference call.
C8_FallbackAlways ==
    \A w \in Workers :
        LET f == worker[w].file IN
        (f.kind \notin {"none", "missing", "small"} /\ ~f.prim_ok) =>
            /\ f.convs = 1
            /\ f.decodes <= 2
            /\ f.kind = "decode" => f.calls = 0

\* C9 (SpecChunk): after a 15 s chunked separation in which every call
\* returned a result, the merged result has at least as many samples as
\* the input.
C9_OutputCoversInput ==
    \A w \in Workers :
        LET r == worker[w] IN
        (r.pc = "stem" /\ r.mode = "std15" /\ r.file.calls = Len(r.chunk_sources))
            => r.sources[4] >= r.wt

\* C10 (SpecChunk): a file whose chunk results differ in batch, source
\* count or channel count never reaches the stem loop.
C10_MismatchFailsFile ==
    \A w \in Workers :
        LET r == worker[w] IN
        (r.pc = "stem" /\ r.mode \in ChunkedModes)
            => Cardinality(batch_dims(r.chunk_sources)) <= 1

\* C11 (SpecFile): the 10 s chunk loop runs only after a whole-file call
\* that failed with an out-of-memory or shape error, and then always; its
\* chunks hold at most 10 s; a whole-file call that failed otherwise ends
\* the file as failed without a further call; a chunk loop never goes
\* back to a whole-file call or changes its mode; and a retry fails the
\* file only when no chunk returned a result or the results do not fit.
RetryModes == {"std10", "ens10"}

C11_RetryState ==
    \A w \in Workers :
        LET r == worker[w]
            f == worker[w].file
        IN  /\ r.mode \in RetryModes =>
                 /\ f.whole = "oom"
                 /\ \A i \in 1..Len(r.chunk_sources) : r.chunk_sources[i][4] <= 10 * 44100
            /\ (f.whole = "oom" /\ f.kind = "running") => r.mode \in RetryModes
            /\ f.whole \in {"runtime", "other"} =>
                 /\ f.kind = "separation"
                 /\ r.pc \in {"loop", "summary"}

C11_RetryStep ==
    \A w \in Workers :
        LET r == worker[w]
            n == worker'[w]
        IN  /\ (r.pc = "whole" /\ n.file.whole \in {"runtime", "other"}) =>
                 /\ n.pc = "loop"
                 /\ n.file.calls = r.file.calls
                 /\ n.files_failed = r.files_failed + 1
            /\ (r.pc = "whole" /\ n.pc = "chunk") =>
                 /\ n.file.whole = "oom"
                 /\ n.mode \in RetryModes
                 /\ n.file.calls = r.file.calls + 1
            /\ r.pc = "chunk" =>
                 /\ n.pc \in {"chunk", "stem", "loop"}
                 /\ n.pc = "chunk" => n.mode = r.mode
            /\ (r.pc = "chunk" /\ r.mode \in RetryModes /\ n.pc = "loop") =>
                 /\ n.files_failed = r.files_failed + 1
                 /\ n.file.kind \in {"no_chunks", "chunk_shape"}
                 /\ n.file.kind = "no_chunks" => r.chunk_sources = <<>>
                 /\ n.file.kind = "chunk_shape" => r.chunk_sources # <<>>

C11_OneRetry == []C11_RetryState /\ [][C11_RetryStep]_vars

\* A whole-file call ran out of memory and the 10 s retry produced the
\* result the stem loop works on.
C11_Witness ==
    \E w \in Workers :
        /\ worker[w].pc = "stem"
        /\ worker[w].mode = "std10"
        /\ worker[w].file.whole = "oom"
        /\ Len(worker[w].chunk_sources) >= 2

\* C12 (SpecChunk): the result of an ensemble 15 s chunked separation is
\* the chunks padded to the longest and concatenated along time: it has
\* the batch, source and channel counts of each chunk, and as many samples
\* as the chunks together when padded.
C12_EnsembleMergesAlongTime ==
    \A w \in Workers :
        LET r == worker[w] IN
        (r.pc = "stem" /\ r.mode = "ens15") =>
            /\ \A i \in 1..Len(r.chunk_sources) :
                 /\ r.sources[1] = r.chunk_sources[i][1]
                 /\ r.sources[2] = r.chunk_sources[i][2]
                 /\ r.sources[3] = r.chunk_sources[i][3]
            /\ r.sources[4] = Len(r.chunk_sources) * SeqMax(r.chunk_sources, 4)

\* C13 (SpecChunk): in the result of a chunked separation merged along
\* time, every chunk result sits at the position its chunk has in the
\* input: the result of the chunk that started at input sample s starts at
\* output sample s.
C13_TimeAligned ==
    \A w \in Workers :
        LET r == worker[w] IN
        (r.pc = "stem" /\ r.mode \in {"std15", "std10", "ens10"}) =>
            \A j \in 1..Len(r.chunk_sources) :
                (j - 1) * SeqMax(r.chunk_sources, 4) = r.chunk_starts[j]

\* C14 (SpecQuality): a thread that has read quality level q holds shifts
\* 0, 0, 1, 1, 2 and overlap 0.10, 0.15, 0.20, 0.25, 0.30 for q = 1..5;
\* once the variant's floors and overrides are applied, neither its shifts
\* nor its overlap is below what the same variant gets at a lower level.
C14_Shifts == <<0, 0, 1, 1, 2>>
C14_Overlaps == <<10, 15, 20, 25, 30>>

C14_Effective(model_type, q) ==
    <<variant_shifts(model_type, quality_shifts(q)),
      variant_overlap(model_type, quality_overlap(q))>>

C14_QualityMonotone ==
    \A w \in Workers :
        LET r == worker[w] IN
        /\ r.pc = "load" =>
             /\ r.shifts = C14_Shifts[dpg.quality]
             /\ r.overlap = C14_Overlaps[dpg.quality]
        /\ r.model # "none" =>
             /\ <<r.shifts, r.overlap>> = C14_Effective(dpg.ai_model, dpg.quality)
             /\ r.shifts >= C14_Shifts[dpg.quality] \/ use_mdx(dpg.ai_model)
             /\ r.overlap >= C14_Overlaps[dpg.quality] \/ use_mdx(dpg.ai_model)
             /\ \A q \in 1..dpg.quality :
                  /\ C14_Effective(dpg.ai_model, q)[1] <= r.shifts
                  /\ C14_Effective(dpg.ai_model, q)[2] <= r.overlap

\* The Drums variant at quality 1 works with its floors, one shift and
\* overlap 0.2, above the table's 0 and 0.10.
C14_Witness ==
    \E w \in Workers :
        /\ worker[w].pc = "whole"
        /\ dpg.ai_model = DrumsModel
        /\ dpg.quality = 1
        /\ worker[w].shifts = 1
        /\ worker[w].overlap = 20

\* C15 (SpecQuality): under the Drums variant every whole-file call of the
\* main separation is given at least one shift and an overlap of at least
\* 0.2, at every quality level, on either device, for every duration that
\* is separated whole.
C15_DrumsWholeFloors ==
    \A w \in Workers :
        LET r == worker[w] IN
        (r.pc = "whole" /\ dpg.ai_model = DrumsModel) =>
            /\ r.call.pass = "main"
            /\ r.call.samples = r.wt
            /\ r.call.shifts >= 1
            /\ r.call.overlap >= 20

\* On the GPU a file over 300 s is separated whole under the Drums variant
\* at quality 1.
C15_Witness ==
    \E w \in Workers :
        /\ worker[w].pc = "whole"
        /\ dpg.ai_model = DrumsModel
        /\ dpg.quality = 1
        /\ is_cpu = <<FALSE>>
        /\ worker[w].wt > 300 * sample_rate
        /\ worker[w].call.shifts = 1

\* C16 (SpecStem): when the vocal-first pre-pass raises or returns fewer
\* sources than the vocal index needs, the waveform is not replaced and no
\* accompaniment is written; the thread's next step submits the main pass
\* on the whole ingested waveform, and the file's failure counter does not
\* move.
C16_PrepassFailed(r) == r.file.kind = "running" /\ r.file.prepass \in {"fewer", "fail"}

C16_State ==
    \A w \in Workers :
        LET r == worker[w] IN
        C16_PrepassFailed(r) =>
            /\ ~r.replaced
            /\ Accompaniment \notin r.file.out
            /\ r.pc \in {"whole", "chunk"} => r.call.pass = "main" /\ r.call.original

C16_Step ==
    \A w \in Workers :
        LET r == worker[w]
            n == worker'[w]
        IN  (r.pc = "vocal_first" /\ n.pc # "vocal_first" /\ C16_PrepassFailed(n)) =>
                /\ n.pc = "whole"
                /\ n.call.samples = n.wt
                /\ n.wt = r.wt
                /\ n.file.calls = r.file.calls + 1
                /\ n.files_failed = r.files_failed
                /\ n.idx = r.idx

C16_PrepassFailureKeepsWaveform == []C16_State /\ [][C16_Step]_vars

\* A file whose pre-pass returned too few sources was separated and
\* counted as processed.
C16_Witness ==
    \E w \in Workers :
        /\ dpg.vocal_first
        /\ worker[w].file.prepass = "fewer"
        /\ worker[w].file.kind = "processed"
        /\ worker[w].files_failed = 0

\* C17 (SpecStem): under vocal-first every written Vocals stem holds the
\* audio of an inference call on the original waveform, made for that
\* stem, and every other written stem holds audio of the main pass.
C17_VocalsFromOriginal ==
    \A w \in Workers :
        LET r == worker[w] IN
        dpg.vocal_first =>
            /\ \A e \in r.file.written :
                 IF e[1] = "Vocals" THEN e[2] = "vocals" ELSE e[2] = "main"
            /\ r.pc = "vocals_pass" =>
                 /\ stems[r.stem_idx + 1] = "Vocals"
                 /\ r.call.pass = "vocals"
                 /\ r.call.original
                 /\ r.call.samples = r.wt

\* The main pass ran over the accompaniment; Drums was written from it
\* and Vocals from the retrieval on the original waveform.
C17_Witness ==
    \E w \in Workers :
        /\ dpg.vocal_first
        /\ worker[w].replaced
        /\ worker[w].file.written = {<<"Drums", "main">>, <<"Vocals", "vocals">>}

\* C18 (SpecStem): a stem found silent is not written, stands in the
\* file's skipped list, and a file is not counted as failed when silence
\* is all that kept its stems from being saved.
C18_SilentSkipped ==
    \A w \in Workers :
        LET r == worker[w] IN
        /\ \A stem \in r.file.silent :
             /\ <<stem, "wav">> \notin r.file.out
             /\ \E i \in 1..Len(r.file.stems_skipped) : r.file.stems_skipped[i][1] = stem
        /\ ~(r.file.kind = "nostems" /\ r.file.silent = {stems[i] : i \in 1..Len(stems)})

\* C19 (SpecStem): apply_denoising is called only for the Vocals stem and
\* only with the level min(requested, 0.12); with the box unchecked it is
\* not called.
C19_VocalsOnlyCapped ==
    \A w \in Workers :
        LET r == worker[w] IN
        /\ \A e \in r.file.denoise :
             /\ e[1] = "Vocals"
             /\ e[2] = Min(dpg.denoise_level, 12)
        /\ ~dpg.apply_denoising => r.file.denoise = {}

\* C20 (SpecStem): the turn of the stem loop that calls apply_denoising
\* for a stem leaves the stem's file in the directory under its final
\* name, whatever the call returned; when it
\* returned False the file holds the audio written before, the stem is
\* counted as saved either way, the MIDI export is attempted as it is
\* without denoising, and the loop is at the next stem.
C20_State ==
    \A w \in Workers :
        LET r == worker[w] IN
        /\ \A e \in r.file.written : <<e[1], "wav">> \in r.file.out
        /\ \A e \in r.file.denoise :
             /\ <<e[1], "wav">> \in r.file.out
             /\ \E pass \in {"main", "vocals"} : <<e[1], pass>> \in r.file.written
             /\ e[1] \in r.file.clean <=> e[3]

C20_Step ==
    \A w \in Workers :
        LET r == worker[w]
            n == worker'[w]
        IN  \A e \in n.file.denoise \ r.file.denoise :
                /\ n.stems_saved = r.stems_saved + 1
                /\ e[1] \in n.file.midi <=> (dpg.export_midi /\ e[1] \in MidiStems)
                /\ n.pc = "stem"
                /\ n.stem_idx = r.stem_idx + 1
                /\ n.files_failed = r.files_failed

C20_DenoiseKeepsStem == []C20_State /\ [][C20_Step]_vars

\* Denoising failed for Drums: its file is there with the audio written
\* before, it was sent to the MIDI export, and Vocals was saved after it.
C20_Witness ==
    \E w \in Workers :
        /\ <<"Drums", 8, FALSE>> \in worker[w].file.denoise
        /\ <<"Drums", "wav">> \in worker[w].file.out
        /\ "Drums" \notin worker[w].file.clean
        /\ "Drums" \in worker[w].file.midi
        /\ <<"Vocals", "wav">> \in worker[w].file.out
        /\ worker[w].stems_saved = 2

\* C21 (SpecDenoise): the sigma multiplier apply_denoising gates with is
\* 2.5 - 5 * level, and it is strictly smaller than the multiplier of
\* every lower positive level of the slider.
C21_SigmaDecreasing ==
    \A w \in Workers :
        \A e \in worker[w].file.sigma :
            /\ dpg.denoise_level \in 1..30
            /\ e[2] = 250 - 5 * dpg.denoise_level
            /\ \A a \in 1..30 :
                 a < dpg.denoise_level => e[2] < sigma_threshold(a)

\* At the top of the slider, level 0.30, a stem was gated with the
\* multiplier 1.0.
C21_Witness ==
    \E w \in Workers :
        /\ dpg.denoise_level = 30
        /\ <<"Vocals", 100>> \in worker[w].file.sigma

\* C22 (SpecMidi): every note of every note file written, by the melodic
\* mode or the drums mode, has a pitch from 21 to 108 and lasts from 0.1 s
\* to 4.0 s.
C22_Millis(beats) == (beats * 60) \div tempo

C22_NotesClamped ==
    \A w \in Workers :
        \A e \in worker[w].file.notes :
            /\ Len(e[2]) > 0
            /\ \A i \in 1..Len(e[2]) :
                 /\ e[2][i].pitch >= 21
                 /\ e[2][i].pitch <= 108
                 /\ C22_Millis(e[2][i].duration) >= 100
                 /\ C22_Millis(e[2][i].duration) <= 4000

\* A melodic note file holds a note raised to pitch 21 that lasts the
\* full 4.0 s, followed by a note lowered to 108.
C22_Witness ==
    \E w \in Workers :
        \E e \in worker[w].file.notes :
            /\ e[1] = "Vocals"
            /\ Len(e[2]) = 2
            /\ e[2][1].pitch = 21
            /\ C22_Millis(e[2][1].duration) = 4000
            /\ e[2][2].pitch = 108

\* C23 (SpecStem): the turn of the stem loop in which the transcription
\* of a stem detects no onset, or no onset with a valid pitch, writes no
\* note file, keeps the stem's audio file, counts the stem as saved and
\* leaves the loop at the next stem; the file is counted as processed.
C23_Nothing == {"no_onsets", "no_notes"}

C23_State ==
    \A w \in Workers :
        LET r == worker[w] IN
        \A e \in r.file.heard :
            e[2] \in C23_Nothing =>
                /\ <<e[1], "mid">> \notin r.file.out
                /\ \A n \in r.file.notes : n[1] # e[1]
                /\ <<e[1], "wav">> \in r.file.out
                /\ r.file.kind \in {"running", "processed"}

C23_Step ==
    \A w \in Workers :
        LET r == worker[w]
            n == worker'[w]
        IN  \A e \in n.file.heard \ r.file.heard :
                e[2] \in C23_Nothing =>
                    /\ n.stems_saved = r.stems_saved + 1
                    /\ n.pc = "stem"
                    /\ n.stem_idx = r.stem_idx + 1
                    /\ n.files_failed = r.files_failed

C23_NoNotesNoFile == []C23_State /\ [][C23_Step]_vars

\* No onset was detected in Drums and no pitched note in Vocals: both
\* audio files are there, no note file, and the file counted as processed
\* in a batch that went on to the second file.
C23_Witness ==
    \E w \in Workers :
        /\ worker[w].file.heard = {<<"Drums", "no_onsets">>, <<"Vocals", "no_notes">>}
        /\ worker[w].file.out = {<<"Drums", "wav">>, <<"Vocals", "wav">>}
        /\ worker[w].file.kind = "processed"
        /\ worker[w].idx = 2
        /\ worker[w].files_processed = 2

\* C24 (SpecMidi): with MIDI export on, audio_to_midi is called for every
\* stem written whose name is one of vocals, bass, piano, guitar, other
\* and drums.
C24_EveryTranscribableTried ==
    \A w \in Workers :
        \A e \in worker[w].file.written :
            (dpg.export_midi /\
             e[1] \in {"Vocals", "Bass", "Piano", "Guitar", "Other", "Drums"}) =>
                e[1] \in worker[w].file.midi

\* C25 (SpecDevice): while a thread works on its batch, the is-CPU flag
\* it reads is the one it resolved with its device before the first file:
\* the flag says CPU exactly when the thread's device is the CPU.
C25_DeviceFixed ==
    \A w \in Workers :
        Running(w) => is_cpu = <<worker[w].device = "cpu">>

\* C26 (SpecQuality): in a batch that no Stop interrupted, with denoising
\* and MIDI export off and every selected stem audible, a file that did
\* not fail leaves exactly one audio file per selected stem and no note
\* file; when no file failed the summary counts every file of the batch
\* as processed, and the summary leaves the bar at 1.0.  Outside the
\* ensemble mode no file of such a batch fails.
C26_State ==
    \A w \in Workers :
        LET r == worker[w] IN
        (r.clean /\ ~dpg.apply_denoising /\ ~dpg.export_midi) =>
            /\ r.file.kind = "processed" =>
                 /\ r.file.out = {<<stems[i], "wav">> : i \in 1..Len(stems)}
                 /\ Cardinality(r.file.out) = Len(stems)
                 /\ r.file.notes = {}
            /\ (r.pc = "summary" /\ r.files_failed = 0) =>
                 /\ r.files_processed = r.total
                 /\ r.total = selected_files
            /\ ~use_ensemble(dpg.ai_model) => r.files_failed = 0

C26_Step ==
    \A w \in Workers :
        (worker[w].pc = "summary" /\ worker'[w].pc = "done") =>
            /\ progress' = One
            /\ ~processing'

C27_CpuCallsChunked ==
    \A w \in Workers :
        LET r == worker[w] IN
        (r.call.pass # "none" /\ is_cpu = <<TRUE>> /\
         r.wt > ChunkThresholdSeconds * sample_rate) =>
            r.call.samples <= chunk_seconds_std * sample_rate

\* C28 (SpecList): once Stop was pressed during a thread's life, from its
\* Start on, the thread enters no file and moves to no further index.
C28_StopNeverLost ==
    [][\A w \in Workers :
         (Alive(w) /\ ~worker[w].clean /\ worker[w].pc \notin InFile) =>
             /\ worker'[w].pc \notin InFile
             /\ worker'[w].idx = worker[w].idx \/ worker'[w].pc = "done"]_vars

\* C29 (SpecList): the list a thread's loop works through, and the total
\* it computes progress with, have exactly the valid files the list held
\* when its Start was accepted, whatever is added or cleared meanwhile;
\* the index of a file being handled is below that total.
C29_BatchIsListAtStart ==
    \A w \in Workers :
        LET r == worker[w] IN
        /\ r.pc \in {"load", "loop", "summary"} \cup InFile => r.total = r.batch
        /\ r.pc \in {"loop", "summary"} \cup InFile => r.flen = r.batch
        /\ r.pc \in InFile => r.idx < r.total

\* C30: every run of process_files eventually returns, and the state it
\* returns in has the processing flag down, whichever exit it takes:
\* missing libraries, unwritable output directory, no stems, no model, an
\* unexpected exception, cancellation or normal completion.
C30_RunReturnsFlagDown ==
    \A w \in Workers :
        (worker[w].pc = "spawned") ~> (worker[w].pc = "done" /\ ~processing)

\* A thread has returned through the summary with the flag down.
C30_Witness ==
    \E w \in Workers :
        /\ worker[w].pc = "done"
        /\ worker[w].exit = "summary"
        /\ ~processing

====
